---- MODULE Spec2Model ----
(***************************************************************************)
(* SLRParser of src/src/index.py as a state machine: grammar text ->       *)
(* grammar -> symbols -> FIRST -> FOLLOW -> LR(0) automaton -> SLR table   *)
(* -> table-driven shift-reduce runs.  Strings are TLA+ strings handled    *)
(* character by character (Len, SubSeq, \o), so the text conversions of    *)
(* the code (split, strip, replace, join, isupper) are computed, not       *)
(* assumed.                                                                *)
(***************************************************************************)
EXTENDS Integers, Sequences, FiniteSets, TLC

VARIABLES
    raw,            \* grammar_input handed to SLRParser(...)
    pc,             \* position of the program
    grammar,        \* self.grammar: insertion-ordered <<lhs, productions>> pairs
    start_symbol,   \* self.start_symbol
    terminals,      \* self.terminals
    non_terminals,  \* self.non_terminals
    first,          \* self.first  (defaultdict(set))
    follow,         \* self.follow (defaultdict(set))
    first_todo,     \* non-terminals the loop of line 98 has not reached yet
    call_stack,     \* active calls of first(symbol), innermost last
    sym_order,      \* iteration order of terminals | non_terminals (line 168)
    states,         \* self.states
    state_map,      \* state_map: item set -> index
    state_queue,    \* state_queue
    parse_table,    \* self.parse_table
    build_idx,      \* state_idx of the loop of line 194
    input_string,   \* argument of parse_string
    tokens,         \* tokens
    stack,          \* stack
    token_index,    \* token_index
    parse_steps,    \* parse_steps
    step_counter,   \* step_counter
    sorted_terminals, \* sorted(self.terminals - {"$"}, key=len, reverse=True)
    outcome,        \* how the current parse_string call ended
    runs,           \* number of parse_string calls started on this parser
    built,          \* the parser's fields as they were when __init__ returned
    first_returned, \* self.first as it was when compute_first_sets returned
    history         \* outcomes and traces of the finished parse_string calls

vars == <<raw, pc, grammar, start_symbol, terminals, non_terminals, first, follow,
          first_todo, call_stack, sym_order, states, state_map, state_queue,
          parse_table, build_idx, input_string, tokens, stack, token_index,
          parse_steps, step_counter, sorted_terminals, outcome, runs, built,
          first_returned, history>>

(***************************************************************************)
(* Bounds of the model.                                                    *)
(***************************************************************************)
\* first(symbol) recursion depth at which the interpreter raises RecursionError
RecursionLimit == 6
\* symbol sets up to this size are iterated in every order, larger ones in the
\* rotations of one order and of its reverse
MaxPermSyms == 5
\* parse_string calls made on one parser
MaxRuns == 2
\* iterations of the loop of line 308 followed in one parse_string call
MaxSteps == 20

(***************************************************************************)
(* Python str operations.                                                  *)
(***************************************************************************)
Whitespace == {" ", "\t", "\n"}

UpperChars == {"A","B","C","D","E","F","G","H","I","J","K","L","M",
               "N","O","P","Q","R","S","T","U","V","W","X","Y","Z"}

LowerChars == {"a","b","c","d","e","f","g","h","i","j","k","l","m",
               "n","o","p","q","r","s","t","u","v","w","x","y","z"}

Char(s, i) == SubSeq(s, i, i)

From(s, i) == SubSeq(s, i, Len(s))

RECURSIVE LStrip(_)
LStrip(s) ==
    IF Len(s) > 0 /\ Char(s, 1) \in Whitespace THEN LStrip(From(s, 2)) ELSE s

RECURSIVE RStrip(_)
RStrip(s) ==
    IF Len(s) > 0 /\ Char(s, Len(s)) \in Whitespace
    THEN RStrip(SubSeq(s, 1, Len(s) - 1)) ELSE s

\* str.strip()
Strip(s) == RStrip(LStrip(s))

\* str.find(sub, i-1) + 1: the first position >= i where sub occurs, else 0
RECURSIVE FindFrom(_, _, _)
FindFrom(s, sub, i) ==
    IF i + Len(sub) - 1 > Len(s) THEN 0
    ELSE IF SubSeq(s, i, i + Len(sub) - 1) = sub THEN i
    ELSE FindFrom(s, sub, i + 1)

\* sub in s
Contains(s, sub) == FindFrom(s, sub, 1) > 0

\* str.split(sep)
RECURSIVE Split(_, _)
Split(s, sep) ==
    LET k == FindFrom(s, sep, 1)
    IN  IF k = 0 THEN <<s>>
        ELSE <<SubSeq(s, 1, k - 1)>> \o Split(From(s, k + Len(sep)), sep)

\* str.split(sep, 1)
SplitOnce(s, sep) ==
    LET k == FindFrom(s, sep, 1)
    IN  IF k = 0 THEN <<s>> ELSE <<SubSeq(s, 1, k - 1), From(s, k + Len(sep))>>

\* length of the leading run of non-whitespace characters
RECURSIVE WordLen(_)
WordLen(s) ==
    IF Len(s) = 0 \/ Char(s, 1) \in Whitespace THEN 0 ELSE 1 + WordLen(From(s, 2))

\* str.split()
RECURSIVE SplitWS(_)
SplitWS(s) ==
    LET t == LStrip(s)
        n == WordLen(t)
    IN  IF t = "" THEN <<>> ELSE <<SubSeq(t, 1, n)>> \o SplitWS(From(t, n + 1))

\* sep.join(parts)
RECURSIVE Join(_, _)
Join(parts, sep) ==
    IF parts = <<>> THEN ""
    ELSE IF Len(parts) = 1 THEN parts[1]
    ELSE parts[1] \o sep \o Join(Tail(parts), sep)

\* str.replace(old, new), old non-empty
RECURSIVE Replace(_, _, _)
Replace(s, old, new) ==
    LET k == FindFrom(s, old, 1)
    IN  IF k = 0 THEN s
        ELSE SubSeq(s, 1, k - 1) \o new \o Replace(From(s, k + Len(old)), old, new)

\* str.isupper(): some cased character, and no lowercase one
IsUpper(s) ==
    /\ \E i \in 1..Len(s) : Char(s, i) \in UpperChars
    /\ \A i \in 1..Len(s) : Char(s, i) \notin LowerChars

(***************************************************************************)
(* Insertion-ordered dict of the grammar: a sequence of <<key, value>>.    *)
(***************************************************************************)
Keys(d) == {d[i][1] : i \in 1..Len(d)}

KeyIndex(d, k) == CHOOSE i \in 1..Len(d) : d[i][1] = k

\* d[k] of a defaultdict(list), read only
Get(d, k) == IF k \in Keys(d) THEN d[KeyIndex(d, k)][2] ELSE <<>>

\* d[k] = v: an existing key keeps its place
Put(d, k, v) ==
    IF k \in Keys(d) THEN [d EXCEPT ![KeyIndex(d, k)] = <<k, v>>]
    ELSE Append(d, <<k, v>>)

\* the effect on d of evaluating d[k] on a defaultdict(list)
Touch(d, k) == IF k \in Keys(d) THEN d ELSE Append(d, <<k, <<>>>>)

\* the effect of evaluating d[k] for every k of S
RECURSIVE TouchAll(_, _)
TouchAll(d, S) ==
    IF S = {} THEN d
    ELSE LET k == CHOOSE x \in S : TRUE IN TouchAll(Touch(d, k), S \ {k})

(***************************************************************************)
(* parse_grammar                                                           *)
(***************************************************************************)
GrammarNone == [ok |-> FALSE, grammar |-> <<>>]

StripAll(parts) == [i \in 1..Len(parts) |-> Strip(parts[i])]

\* ParseRules with `continue` in place of `return None`: a malformed rule is
\* skipped and the others are kept
RECURSIVE ParseRulesSkip(_, _)
ParseRulesSkip(rules, g) ==
    IF rules = <<>> THEN [ok |-> TRUE, grammar |-> g]
    ELSE LET rule == Strip(Head(rules))
             parts == SplitOnce(rule, "->")
         IN  IF rule = "" \/ ~Contains(rule, "->") THEN ParseRulesSkip(Tail(rules), g)
             ELSE IF Strip(parts[1]) = "" \/ Strip(parts[2]) = ""
             THEN ParseRulesSkip(Tail(rules), g)
             ELSE ParseRulesSkip(Tail(rules),
                                 Put(g, Strip(parts[1]),
                                     StripAll(Split(Strip(parts[2]), "|"))))

\* lines 32-48: the rules in turn, g the grammar gathered so far
RECURSIVE ParseRules(_, _)
ParseRules(rules, g) ==
    IF rules = <<>> THEN [ok |-> TRUE, grammar |-> g]
    ELSE LET rule == Strip(Head(rules))
         IN  IF rule = "" THEN ParseRules(Tail(rules), g)
             ELSE IF ~Contains(rule, "->") THEN GrammarNone
             ELSE LET parts == SplitOnce(rule, "->")
                      lhs == Strip(parts[1])
                      rhs == Strip(parts[2])
                  IN  IF lhs = "" \/ rhs = "" THEN GrammarNone
                      ELSE ParseRules(Tail(rules),
                                      Put(g, lhs, StripAll(Split(rhs, "|"))))

parse_grammar(raw_grammar) ==
    LET r == ParseRules(Split(raw_grammar, ";"), <<>>)
    IN  IF r.ok /\ r.grammar = <<>> THEN GrammarNone ELSE r

(***************************************************************************)
(* augment_grammar, _extract_symbols                                       *)
(***************************************************************************)
\* the new start symbol of augment_grammar
AugmentedStart(start) == start \o "'"

augment_grammar(g, start) == Put(g, AugmentedStart(start), <<start>>)

\* every whitespace-separated token of every production
RhsSymbols(g) ==
    UNION {UNION {{SplitWS(g[i][2][j])[n] : n \in 1..Len(SplitWS(g[i][2][j]))}
                  : j \in 1..Len(g[i][2])}
           : i \in 1..Len(g)}

ExtractNonTerminals(g) == Keys(g) \cup {sym \in RhsSymbols(g) : IsUpper(sym)}

ExtractTerminals(g) == {sym \in RhsSymbols(g) : ~IsUpper(sym)} \cup {"$"}

(***************************************************************************)
(* defaultdict(set): a function whose domain is the set of keys made.      *)
(***************************************************************************)
EmptyDict == [k \in {} |-> {}]

DGet(d, k) == IF k \in DOMAIN d THEN d[k] ELSE {}

DSet(d, k, v) == (k :> v) @@ d

\* the effect on d of evaluating d[k]
DTouch(d, k) == IF k \in DOMAIN d THEN d ELSE (k :> {}) @@ d

\* the effect of evaluating d[k] for every k of S
DTouchAll(d, S) == [k \in S \ DOMAIN d |-> {}] @@ d

(***************************************************************************)
(* compute_first_sets: first(symbol) with its recursion made explicit.     *)
(* A frame is one active call: the symbol, the production (p) and the      *)
(* position in it (k) the loops have reached, and result.                  *)
(***************************************************************************)
Epsilon == "ε"

NewFrame(symbol) == [symbol |-> symbol, p |-> 1, k |-> 1, result |-> {}]

\* first(sym) returns without entering the loops: a terminal, or a cached value
Immediate(sym, fst) == sym \in terminals \/ DGet(fst, sym) # {}

ImmediateValue(sym, fst) == IF sym \in terminals THEN {sym} ELSE DGet(fst, sym)

\* lines 89-91 for the value sym_first that first(sym) returned to frame f
Consume(f, sym_first) ==
    IF Epsilon \in sym_first
    THEN [f EXCEPT !.result = @ \cup (sym_first \ {Epsilon}), !.k = @ + 1]
    ELSE [f EXCEPT !.result = @ \cup sym_first, !.p = @ + 1, !.k = 1]

\* The loops of lines 81-93 run from the frame's position until the call
\* first(sym) of line 88 has to enter the loops itself, or until the
\* productions are exhausted.
RECURSIVE Scan(_, _, _)
Scan(f, g, fst) ==
    LET prods == Get(g, f.symbol)
    IN  IF f.p > Len(prods) THEN f
        ELSE LET production == prods[f.p]
                 syms == SplitWS(production)
             IN  IF production = ""
                 THEN Scan([f EXCEPT !.result = @ \cup {Epsilon}, !.p = @ + 1, !.k = 1], g, fst)
                 ELSE IF f.k > Len(syms)
                 THEN Scan([f EXCEPT !.result = @ \cup {Epsilon}, !.p = @ + 1, !.k = 1], g, fst)
                 ELSE IF syms[f.k] = f.symbol
                 THEN Scan([f EXCEPT !.p = @ + 1, !.k = 1], g, fst)
                 ELSE IF Immediate(syms[f.k], fst)
                 THEN Scan(Consume(f, ImmediateValue(syms[f.k], fst)), g, fst)
                 ELSE f

Finished(f, g) == f.p > Len(Get(g, f.symbol))

\* the symbol whose first() call a scanned, unfinished frame is about to make
Callee(f, g) == SplitWS(Get(g, f.symbol)[f.p])[f.k]

(***************************************************************************)
(* compute_follow_sets.  trailer is a Python set object: after             *)
(* `trailer = self.first[symbol]` (line 118) it IS that FIRST set, so the  *)
(* update of line 116 writes to self.first[alias] as well.  alias names    *)
(* the FIRST set trailer is bound to, "" when it is an object of its own.  *)
(***************************************************************************)
Reverse(s) == [i \in 1..Len(s) |-> s[Len(s) + 1 - i]]

\* line 116: trailer.update(add), seen through every name of the object
TrailerUpdate(st, add) ==
    [st EXCEPT !.trailer = @ \cup add,
               !.first = IF st.alias = "" THEN @
                         ELSE DSet(@, st.alias, st.trailer \cup add)]

\* lines 111-120 for one symbol of the reversed production
FollowSymbol(st, symbol) ==
    IF symbol \in non_terminals
    THEN LET grows == (st.trailer \ DGet(st.follow, symbol)) # {}
             st1 == [st EXCEPT !.follow = IF grows
                                          THEN DSet(@, symbol, DGet(@, symbol) \cup st.trailer)
                                          ELSE DTouch(@, symbol),
                               !.changed = @ \/ grows,
                               !.first = DTouch(@, symbol)]
             fs == DGet(st.first, symbol)
         IN  IF Epsilon \in fs
             THEN TrailerUpdate(st1, fs \ {Epsilon})
             ELSE [st1 EXCEPT !.trailer = fs, !.alias = symbol]
    ELSE [st EXCEPT !.trailer = {symbol}, !.alias = ""]

RECURSIVE FollowSymbols(_, _)
FollowSymbols(st, syms) ==
    IF syms = <<>> THEN st ELSE FollowSymbols(FollowSymbol(st, Head(syms)), Tail(syms))

\* lines 109-120 for one production of lhs
FollowProduction(st, lhs, production) ==
    FollowSymbols([st EXCEPT !.follow = DTouch(@, lhs),
                             !.trailer = DGet(st.follow, lhs),
                             !.alias = ""],
                  Reverse(SplitWS(production)))

RECURSIVE FollowProductions(_, _, _)
FollowProductions(st, lhs, prods) ==
    IF prods = <<>> THEN st
    ELSE FollowProductions(FollowProduction(st, lhs, Head(prods)), lhs, Tail(prods))

RECURSIVE FollowRules(_, _)
FollowRules(st, g) ==
    IF g = <<>> THEN st
    ELSE FollowRules(FollowProductions(st, Head(g)[1], Head(g)[2]), Tail(g))

\* one iteration of `while changed` (lines 106-120)
FollowPass(fol, fst, g) ==
    FollowRules([follow |-> fol, first |-> fst, trailer |-> {}, alias |-> "",
                 changed |-> FALSE], g)

(***************************************************************************)
(* construct_lr0_items: items are <<lhs, before_dot, after_dot>>, with     *)
(* before_dot a string and after_dot a tuple of symbols, as in the code.   *)
(***************************************************************************)
ProdItems(g, nt) == {<<nt, "", SplitWS(Get(g, nt)[j])>> : j \in 1..Len(Get(g, nt))}

\* one pass of the while loop of closure (lines 128-141)
ClosurePass(closure_set, g) ==
    closure_set \cup
    UNION {ProdItems(g, item[3][1]) :
           item \in {it \in closure_set : it[3] # <<>> /\ it[3][1] \in non_terminals}}

RECURSIVE closure(_, _)
closure(items, g) ==
    LET new_items == ClosurePass(items, g)
    IN  IF new_items = items THEN items ELSE closure(new_items, g)

\* the non-terminals N for which closure evaluates self.grammar[N] (line 134)
\* on its way to the item set `result`
ClosureReads(result) ==
    {item[3][1] : item \in {it \in result : it[3] # <<>> /\ it[3][1] \in non_terminals}}

\* line 148
NewBeforeDot(before_dot, sym) == Strip(before_dot \o " " \o sym)

Advance(item) == <<item[1], NewBeforeDot(item[2], item[3][1]), Tail(item[3])>>

goto(state, symbol, g) ==
    LET new_items == {Advance(item) :
                      item \in {it \in state : it[3] # <<>> /\ it[3][1] = symbol}}
    IN  IF new_items # {} THEN closure(new_items, g) ELSE {}

\* lines 153-156
InitialItem(g, start) == <<start, "", SplitWS(Get(g, start)[1])>>

EmptyRow == [action |-> [k \in {} |-> <<>>], goto |-> [k \in {} |-> 0]]

\* ExpandSymbol with the index of the newest state recorded for every
\* transition, also for one into a state discovered before
ExpandSymbolLast(c, current_state, symbol, g) ==
    LET next_state == goto(current_state, symbol, g)
        fresh == next_state \notin DOMAIN c.state_map
        c1 == IF fresh
              THEN [c EXCEPT !.state_map = (next_state :> Len(c.states)) @@ @,
                             !.states = Append(@, next_state),
                             !.state_queue = Append(@, next_state)]
              ELSE c
        next_state_index == Len(c1.states) - 1
    IN  IF next_state = {} THEN c
        ELSE IF symbol \in terminals
        THEN [c1 EXCEPT !.row.action = (symbol :> <<"shift", next_state_index>>) @@ @]
        ELSE [c1 EXCEPT !.row.goto = (symbol :> next_state_index) @@ @]

\* ExpandSymbol without the test of line 176: every non-empty goto is taken
\* for a state not seen before
ExpandSymbolDup(c, current_state, symbol, g) ==
    LET next_state == goto(current_state, symbol, g)
        c1 == [c EXCEPT !.state_map = (next_state :> Len(c.states)) @@ @,
                        !.states = Append(@, next_state),
                        !.state_queue = Append(@, next_state)]
        next_state_index == c1.state_map[next_state]
    IN  IF next_state = {} THEN c
        ELSE IF symbol \in terminals
        THEN [c1 EXCEPT !.row.action = (symbol :> <<"shift", next_state_index>>) @@ @]
        ELSE [c1 EXCEPT !.row.goto = (symbol :> next_state_index) @@ @]

\* lines 169-189 for one symbol; c holds states, state_map, state_queue and
\* the row self.parse_table[state_index]
ExpandSymbol(c, current_state, symbol, g) ==
    LET next_state == goto(current_state, symbol, g)
        fresh == next_state \notin DOMAIN c.state_map
        c1 == IF fresh
              THEN [c EXCEPT !.state_map = (next_state :> Len(c.states)) @@ @,
                             !.states = Append(@, next_state),
                             !.state_queue = Append(@, next_state)]
              ELSE c
        next_state_index == c1.state_map[next_state]
    IN  IF next_state = {} THEN c
        ELSE IF symbol \in terminals
        THEN [c1 EXCEPT !.row.action = (symbol :> <<"shift", next_state_index>>) @@ @]
        ELSE [c1 EXCEPT !.row.goto = (symbol :> next_state_index) @@ @]

\* ExpandSymbols with `break` for the `continue` of line 172: the loop over
\* the symbols ends at the first symbol without a transition
RECURSIVE ExpandSymbolsBreak(_, _, _, _)
ExpandSymbolsBreak(c, current_state, order, g) ==
    IF order = <<>> \/ goto(current_state, Head(order), g) = {} THEN c
    ELSE ExpandSymbolsBreak(ExpandSymbol(c, current_state, Head(order), g),
                            current_state, Tail(order), g)

\* lines 168-189: the symbols in the order the set is enumerated
RECURSIVE ExpandSymbols(_, _, _, _)
ExpandSymbols(c, current_state, order, g) ==
    IF order = <<>> THEN c
    ELSE ExpandSymbols(ExpandSymbol(c, current_state, Head(order), g),
                       current_state, Tail(order), g)

(***************************************************************************)
(* Iteration orders of Python sets: any order, fixed for one process.      *)
(***************************************************************************)
RECURSIVE Perms(_)
Perms(S) ==
    IF S = {} THEN {<<>>}
    ELSE UNION {{<<x>> \o p : p \in Perms(S \ {x})} : x \in S}

RECURSIVE SomeOrder(_)
SomeOrder(S) ==
    IF S = {} THEN <<>>
    ELSE LET x == CHOOSE y \in S : TRUE IN <<x>> \o SomeOrder(S \ {x})

Rotations(s) == {SubSeq(s, i, Len(s)) \o SubSeq(s, 1, i - 1) : i \in 1..Len(s)}

Orders(S) ==
    IF Cardinality(S) <= MaxPermSyms THEN Perms(S)
    ELSE Rotations(SomeOrder(S)) \cup Rotations(Reverse(SomeOrder(S)))

(***************************************************************************)
(* build_slr_parsing_table                                                 *)
(***************************************************************************)
\* lines 202-206; Python list indices, so the first production is 0
RECURSIVE FindProd(_, _, _)
FindProd(prods, before_dot, idx) ==
    IF idx >= Len(prods) THEN -1
    ELSE IF Join(SplitWS(before_dot), " ") = prods[idx + 1] THEN idx
    ELSE FindProd(prods, before_dot, idx + 1)

\* lines 208-214: reduce entries go to the cells that are still empty
ReduceCells(action, lhs, prod_idx, fol) ==
    [symbol \in (DGet(fol, lhs) \ DOMAIN action) |-> <<"reduce", lhs, prod_idx>>]
    @@ action

\* BuildItem with Accept written like a reduce: only to an empty cell
BuildItemFirstWins(action, item, g, start, fol) ==
    IF item[3] # <<>> THEN action
    ELSE IF item[1] = start
    THEN (IF "$" \in DOMAIN action THEN action ELSE ("$" :> <<"accept">>) @@ action)
    ELSE ReduceCells(action, item[1], FindProd(Get(g, item[1]), item[2], 0), fol)

\* lines 196-214 for one item
BuildItem(action, item, g, start, fol) ==
    IF item[3] # <<>> THEN action
    ELSE IF item[1] = start THEN ("$" :> <<"accept">>) @@ action
    ELSE ReduceCells(action, item[1], FindProd(Get(g, item[1]), item[2], 0), fol)

RECURSIVE BuildItems(_, _, _, _, _)
BuildItems(action, items, g, start, fol) ==
    IF items = <<>> THEN action
    ELSE BuildItems(BuildItem(action, Head(items), g, start, fol),
                    Tail(items), g, start, fol)

\* the items whose enumeration position can matter: those with the dot at the end
Completed(state) == {item \in state : item[3] = <<>>}

\* the lhs for which lines 203 and 208 evaluate self.grammar[lhs], self.follow[lhs]
ReducedLhs(state, start) == {item[1] : item \in {it \in Completed(state) : it[1] # start}}


(***************************************************************************)
(* parse_string: tokenization and trace records.                           *)
(***************************************************************************)
MaxLength(S) == IF S = {} THEN 0 ELSE CHOOSE n \in {Len(x) : x \in S} : \A x \in S : Len(x) <= n

\* sorted(..., key=len, reverse=True) is stable: among terminals of one
\* length the iteration order of the set is kept
RECURSIVE SortByLen(_, _)
SortByLen(order, n) ==
    IF n = 0 THEN <<>>
    ELSE SelectSeq(order, LAMBDA x : Len(x) = n) \o SortByLen(order, n - 1)

SortedByLength(order) == SortByLen(order, MaxLength({order[i] : i \in 1..Len(order)}))

\* lines 286-287
RECURSIVE SpaceOut(_, _)
SpaceOut(processed_input, order) ==
    IF order = <<>> THEN processed_input
    ELSE SpaceOut(Replace(processed_input, Head(order), " " \o Head(order) \o " "),
                  Tail(order))

\* Tokenize without line 290: no end marker
TokenizeNoEnd(input, order) == SplitWS(SpaceOut(input, order))

\* lines 285-290
Tokenize(input, order) == Append(SplitWS(SpaceOut(input, order)), "$")

Digits == <<"0", "1", "2", "3", "4", "5", "6", "7", "8", "9">>

\* str(n) for n >= 0
RECURSIVE IntStr(_)
IntStr(n) == IF n < 10 THEN Digits[n + 1] ELSE IntStr(n \div 10) \o Digits[(n % 10) + 1]

\* a trace record; Stack holds the list that str(stack) renders
Record(step, action, stk, toks, idx, details) ==
    [Step |-> step, Action |-> action, Stack |-> stk,
     Input |-> Join(SubSeq(toks, idx + 1, Len(toks)), " "), Details |-> details]

\* line 292
InitialStack == <<0>>

\* InitialSteps with the list kept from the call before (parse_steps held by
\* the parser instead of made afresh at line 295)
InitialStepsKept(toks) ==
    Append(parse_steps, Record(0, "Initialize", InitialStack, toks, 0, "Start parsing"))

\* lines 295-304
InitialSteps(toks) ==
    <<Record(0, "Initialize", InitialStack, toks, 0, "Start parsing")>>

\* prods[idx] of a Python list: a negative index counts from the end
ListAt(prods, idx) == IF idx < 0 THEN prods[Len(prods) + idx + 1] ELSE prods[idx + 1]

\* RhsLen with split(" ") for the test and split of lines 349-352: the empty
\* production counts one symbol
RhsLenSplitSpace(production) == Len(Split(production, " "))

\* RhsLen with len(production): characters counted, not symbols
RhsLenChars(production) == Len(production)

\* lines 349-352
RhsLen(production) == IF production = "" THEN 0 ELSE Len(SplitWS(production))

\* lines 356-357, when the stack is long enough
Pop(stk, n) == SubSeq(stk, 1, Len(stk) - n)

NoActionMsg(token, state) ==
    "No action defined for token '" \o token \o "' in state " \o IntStr(state)

NoGotoMsg(lhs, state) == "No goto defined for " \o lhs \o " from state " \o IntStr(state)

(***************************************************************************)
(* Inputs: the grammar texts given to SLRParser and, for each, the strings *)
(* given to parse_string.                                                  *)
(***************************************************************************)
ExprGrammar == "E -> E + T | T ; T -> T * F | F ; F -> ( E ) | id"

EpsGrammar == "S -> A ; A -> a A | "

GrammarTexts ==
    {ExprGrammar, EpsGrammar,
     "S -> Y Z ; Y -> y | ; Z -> z",
     "A -> B x ; B -> A y | z",
     "S -> S $ a | a $",
     "S -> a  a | a a a",
     "s -> a s | b",
     "S -> A | B ; A -> a ; B -> a",
     "S -> A ; A -> A | a",
     "S -> A1 b",
     "E -> E a | ",
     "S -> a S' | a S | c",
     "A -> B -> C",
     "S->a;S->b",
     "S -> a ; B", "S -> a ; B -> ", "-> a ; S -> a", "", " ; "}

Inputs(text) ==
    CASE text = ExprGrammar -> {"id + id * id", "id +"}
      [] text = EpsGrammar -> {"a a a", "a a b"}
      [] text = "S -> Y Z ; Y -> y | ; Z -> z" -> {"yz", "y"}
      [] text = "S -> S $ a | a $" -> {"a", "a $"}
      [] text = "S -> a  a | a a a" -> {"aa", "aaa"}
      [] text = "s -> a s | b" -> {"ab", "b"}
      [] text = "S -> A | B ; A -> a ; B -> a" -> {"a", ""}
      [] text = "S -> A ; A -> A | a" -> {"a", ""}
      [] text = "S -> A1 b" -> {"b", "A1 b"}
      [] text = "E -> E a | " -> {"aa", "b"}
      [] text = "S -> a S' | a S | c" -> {"ac", "c"}
      [] text = "A -> B -> C" -> {"->", "x"}
      [] text = "S->a;S->b" -> {"a", "b"}
      [] OTHER -> {}

(***************************************************************************)
(* The state after `import`: nothing constructed yet.                      *)
(***************************************************************************)
NoOutcome == [status |-> "none", message |-> ""]

NoParser == [grammar |-> <<>>]

Init ==
    /\ raw \in GrammarTexts
    /\ pc = "start"
    /\ grammar = <<>>
    /\ start_symbol = ""
    /\ terminals = {}
    /\ non_terminals = {}
    /\ first = EmptyDict
    /\ follow = EmptyDict
    /\ first_todo = {}
    /\ call_stack = <<>>
    /\ sym_order = <<>>
    /\ states = <<>>
    /\ state_map = [k \in {} |-> 0]
    /\ state_queue = <<>>
    /\ parse_table = [k \in {} |-> EmptyRow]
    /\ build_idx = 0
    /\ input_string = ""
    /\ tokens = <<>>
    /\ stack = <<>>
    /\ token_index = 0
    /\ parse_steps = <<>>
    /\ step_counter = 0
    /\ sorted_terminals = <<>>
    /\ outcome = NoOutcome
    /\ runs = 0
    /\ built = NoParser
    /\ first_returned = EmptyDict
    /\ history = <<>>

runVars == <<input_string, tokens, stack, token_index, parse_steps, step_counter,
             sorted_terminals, outcome, runs, history>>

lr0Vars == <<sym_order, states, state_map, state_queue, parse_table, build_idx>>

setVars == <<first, follow, first_todo, call_stack>>

(***************************************************************************)
(* __init__, lines 8-20                                                    *)
(***************************************************************************)
\* lines 8-20 when parse_grammar returns a grammar
ParseGrammarOk ==
    /\ pc = "start"
    /\ parse_grammar(raw).ok
    /\ grammar' = parse_grammar(raw).grammar
    /\ start_symbol' = grammar'[1][1]
    /\ pc' = "augment"
    /\ UNCHANGED <<raw, first_returned, terminals, non_terminals, setVars, lr0Vars, runVars, built>>

\* lines 8-10 when it returns None: ValueError leaves __init__
ParseGrammarFail ==
    /\ pc = "start"
    /\ ~parse_grammar(raw).ok
    /\ pc' = "ValueError"
    /\ UNCHANGED <<raw, first_returned, grammar, start_symbol, terminals, non_terminals, setVars,
                   lr0Vars, runVars, built>>

\* line 22
AugmentGrammar ==
    /\ pc = "augment"
    /\ grammar' = augment_grammar(grammar, start_symbol)
    /\ start_symbol' = AugmentedStart(start_symbol)
    /\ pc' = "extract"
    /\ UNCHANGED <<raw, first_returned, terminals, non_terminals, setVars, lr0Vars, runVars, built>>

\* line 23, and the loop of line 98 about to start
ExtractSymbols ==
    /\ pc = "extract"
    /\ non_terminals' = ExtractNonTerminals(grammar)
    /\ terminals' = ExtractTerminals(grammar)
    /\ first_todo' = non_terminals'
    /\ pc' = "first"
    /\ UNCHANGED <<raw, first_returned, grammar, start_symbol, first, follow, call_stack, lr0Vars,
                   runVars, built>>

(***************************************************************************)
(* compute_first_sets, lines 73-99                                         *)
(***************************************************************************)
\* line 99 for a non-terminal whose first() returns at line 76 or 78
FirstNextCached ==
    /\ pc = "first" /\ call_stack = <<>>
    /\ \E nt \in first_todo :
        /\ Immediate(nt, first)
        /\ first_todo' = first_todo \ {nt}
    /\ UNCHANGED <<raw, first_returned, pc, grammar, start_symbol, terminals, non_terminals, first,
                   follow, call_stack, lr0Vars, runVars, built>>

\* line 99 for a non-terminal whose first() enters the loops
FirstNextCall ==
    /\ pc = "first" /\ call_stack = <<>>
    /\ \E nt \in first_todo :
        /\ ~Immediate(nt, first)
        /\ first_todo' = first_todo \ {nt}
        /\ call_stack' = <<NewFrame(nt)>>
        /\ first' = DTouch(first, nt)
        /\ grammar' = Touch(grammar, nt)
    /\ UNCHANGED <<raw, first_returned, pc, start_symbol, terminals, non_terminals, follow, lr0Vars,
                   runVars, built>>

TopFrame == Scan(call_stack[Len(call_stack)], grammar, first)

\* line 88: the innermost call reaches a symbol whose first() enters the loops
FirstCall ==
    /\ pc = "first" /\ call_stack # <<>>
    /\ ~Finished(TopFrame, grammar)
    /\ Len(call_stack) < RecursionLimit
    /\ call_stack' = Append([call_stack EXCEPT ![Len(call_stack)] = TopFrame],
                            NewFrame(Callee(TopFrame, grammar)))
    /\ first' = DTouch(first, Callee(TopFrame, grammar))
    /\ grammar' = Touch(grammar, Callee(TopFrame, grammar))
    /\ UNCHANGED <<raw, first_returned, pc, start_symbol, terminals, non_terminals, follow, first_todo,
                   lr0Vars, runVars, built>>

\* line 88 with the interpreter's call stack exhausted: RecursionError leaves
\* __init__
FirstRecursionError ==
    /\ pc = "first" /\ call_stack # <<>>
    /\ ~Finished(TopFrame, grammar)
    /\ Len(call_stack) >= RecursionLimit
    /\ pc' = "RecursionError"
    /\ UNCHANGED <<raw, first_returned, grammar, start_symbol, terminals, non_terminals, setVars,
                   lr0Vars, runVars, built>>

\* lines 95-96: the innermost call stores and returns its result; its caller
\* goes on at lines 89-91
FirstReturn ==
    /\ pc = "first" /\ call_stack # <<>>
    /\ Finished(TopFrame, grammar)
    /\ first' = DSet(first, TopFrame.symbol, TopFrame.result)
    /\ call_stack' =
         IF Len(call_stack) = 1 THEN <<>>
         ELSE [SubSeq(call_stack, 1, Len(call_stack) - 1)
                 EXCEPT ![Len(call_stack) - 1] = Consume(@, TopFrame.result)]
    /\ UNCHANGED <<raw, first_returned, pc, grammar, start_symbol, terminals, non_terminals, follow,
                   first_todo, lr0Vars, runVars, built>>

(***************************************************************************)
(* compute_follow_sets, lines 101-120                                      *)
(***************************************************************************)
\* FollowStart with line 102 only reading self.follow[self.start_symbol]: the
\* key is made and "$" is not added
FollowStartNoEnd ==
    /\ pc = "first" /\ call_stack = <<>> /\ first_todo = {}
    /\ follow' = DTouch(follow, start_symbol)
    /\ pc' = "follow"
    /\ first_returned' = first
    /\ UNCHANGED <<raw, grammar, start_symbol, terminals, non_terminals, first,
                   first_todo, call_stack, lr0Vars, runVars, built>>

\* compute_first_sets returns; line 102
FollowStart ==
    /\ pc = "first" /\ call_stack = <<>> /\ first_todo = {}
    /\ follow' = DSet(follow, start_symbol, DGet(follow, start_symbol) \cup {"$"})
    /\ pc' = "follow"
    /\ first_returned' = first
    /\ UNCHANGED <<raw, grammar, start_symbol, terminals, non_terminals, first,
                   first_todo, call_stack, lr0Vars, runVars, built>>

\* one iteration of `while changed`
FollowIterate ==
    /\ pc = "follow"
    /\ LET st == FollowPass(follow, first, grammar)
       IN  /\ follow' = st.follow
           /\ first' = st.first
           /\ pc' = IF st.changed THEN "follow" ELSE "lr0_start"
    /\ UNCHANGED <<raw, first_returned, grammar, start_symbol, terminals, non_terminals, first_todo,
                   call_stack, lr0Vars, runVars, built>>

(***************************************************************************)
(* construct_lr0_items, lines 122-191                                      *)
(***************************************************************************)
\* lines 153-160; the set terminals | non_terminals gets its iteration order
LR0Start ==
    /\ pc = "lr0_start"
    /\ LET start_state == closure({InitialItem(grammar, start_symbol)}, grammar)
       IN  /\ states' = <<start_state>>
           /\ state_map' = (start_state :> 0)
           /\ state_queue' = <<start_state>>
           /\ grammar' = TouchAll(grammar, {start_symbol} \cup ClosureReads(start_state))
    /\ sym_order' \in Orders(terminals \cup non_terminals)
    /\ pc' = "lr0"
    /\ UNCHANGED <<raw, first_returned, start_symbol, terminals, non_terminals, setVars,
                   parse_table, build_idx, runVars, built>>

\* one iteration of `while state_queue` (lines 163-189)
LR0Process ==
    /\ pc = "lr0" /\ state_queue # <<>>
    /\ LET current_state == Head(state_queue)
           state_index == state_map[current_state]
           c == ExpandSymbols([states |-> states, state_map |-> state_map,
                               state_queue |-> Tail(state_queue), row |-> EmptyRow],
                              current_state, sym_order, grammar)
       IN  /\ states' = c.states
           /\ state_map' = c.state_map
           /\ state_queue' = c.state_queue
           /\ parse_table' = (state_index :> c.row) @@ parse_table
           /\ grammar' = TouchAll(grammar,
                UNION {ClosureReads(goto(current_state, sym_order[i], grammar))
                       : i \in 1..Len(sym_order)})
    /\ UNCHANGED <<raw, first_returned, pc, start_symbol, terminals, non_terminals, setVars,
                   sym_order, build_idx, runVars, built>>

\* the queue is empty: line 191, and build_slr_parsing_table begins
LR0Finish ==
    /\ pc = "lr0" /\ state_queue = <<>>
    /\ sym_order' = <<>>
    /\ build_idx' = 0
    /\ pc' = "table"
    /\ UNCHANGED <<raw, first_returned, grammar, start_symbol, terminals, non_terminals, setVars,
                   states, state_map, state_queue, parse_table, runVars, built>>

(***************************************************************************)
(* build_slr_parsing_table, lines 193-214                                  *)
(***************************************************************************)
\* one iteration of the loop of line 194; `for item in state` enumerates the
\* set in any order
BuildState ==
    /\ pc = "table" /\ build_idx < Len(states)
    /\ \E items \in Perms(Completed(states[build_idx + 1])) :
         parse_table' =
           [parse_table EXCEPT ![build_idx].action =
              BuildItems(@, items, grammar, start_symbol, follow)]
    /\ grammar' = TouchAll(grammar, ReducedLhs(states[build_idx + 1], start_symbol))
    /\ follow' = DTouchAll(follow, ReducedLhs(states[build_idx + 1], start_symbol))
    /\ build_idx' = build_idx + 1
    /\ UNCHANGED <<raw, first_returned, pc, start_symbol, terminals, non_terminals, first, first_todo,
                   call_stack, sym_order, states, state_map, state_queue, runVars,
                   built>>

ParserFields ==
    [grammar |-> grammar, start_symbol |-> start_symbol, terminals |-> terminals,
     non_terminals |-> non_terminals, first |-> first, follow |-> follow,
     states |-> states, parse_table |-> parse_table]

\* __init__ returns
InitReturn ==
    /\ pc = "table" /\ build_idx = Len(states)
    /\ built' = ParserFields
    /\ pc' = "ready"
    /\ UNCHANGED <<raw, first_returned, grammar, start_symbol, terminals, non_terminals, setVars,
                   lr0Vars, runVars>>

(***************************************************************************)
(* parse_string, lines 284-423                                             *)
(***************************************************************************)
\* the order in which line 286 enumerates the terminals in this process
TerminalOrders == {SortedByLength(o) : o \in Orders(terminals \ {"$"})}

\* lines 285-306
StartParse ==
    /\ pc = "ready" /\ runs < MaxRuns
    /\ input_string' \in Inputs(raw)
    /\ sorted_terminals' \in IF runs = 0 THEN TerminalOrders ELSE {sorted_terminals}
    /\ tokens' = Tokenize(input_string', sorted_terminals')
    /\ stack' = InitialStack
    /\ token_index' = 0
    /\ parse_steps' = InitialSteps(tokens')
    /\ step_counter' = 1
    /\ outcome' = [status |-> "running", message |-> ""]
    /\ runs' = runs + 1
    /\ pc' = "parsing"
    /\ UNCHANGED <<raw, first_returned, grammar, start_symbol, terminals, non_terminals, setVars,
                   lr0Vars, built, history>>

current_state == stack[Len(stack)]

HasToken == token_index < Len(tokens)

current_token == tokens[token_index + 1]

HasAction ==
    HasToken /\ current_token \in DOMAIN parse_table[current_state].action

action == parse_table[current_state].action[current_token]

\* parse_string returns: the call's result is kept
Finish(ok, msg, steps) ==
    /\ outcome' = [status |-> IF ok THEN "accept" ELSE "reject", message |-> msg]
    /\ history' = Append(history, [input |-> input_string, ok |-> ok, message |-> msg,
                                   steps |-> steps])
    /\ pc' = "ready"

\* line 310 with token_index past the end of tokens: IndexError leaves
\* parse_string
TokenIndexError ==
    /\ pc = "parsing" /\ ~HasToken
    /\ outcome' = [status |-> "fault", message |-> "IndexError: list index out of range"]
    /\ pc' = "ready"
    /\ UNCHANGED <<raw, first_returned, grammar, start_symbol, terminals, non_terminals, setVars,
                   lr0Vars, built, input_string, tokens, stack, token_index,
                   parse_steps, step_counter, sorted_terminals, runs, history>>

\* lines 312-326
NoAction ==
    /\ pc = "parsing" /\ HasToken /\ ~HasAction
    /\ LET error_msg == NoActionMsg(current_token, current_state)
       IN  /\ parse_steps' = Append(parse_steps,
                Record(step_counter, "ERROR", stack, tokens, token_index, error_msg))
           /\ Finish(FALSE, error_msg, parse_steps')
    /\ UNCHANGED <<raw, first_returned, grammar, start_symbol, terminals, non_terminals, setVars,
                   lr0Vars, built, input_string, tokens, stack, token_index,
                   step_counter, sorted_terminals, runs>>

\* lines 330-343 and 423
Shift ==
    /\ pc = "parsing" /\ HasAction /\ action[1] = "shift"
    /\ step_counter < MaxSteps
    /\ stack' = stack \o <<current_token, action[2]>>
    /\ token_index' = token_index + 1
    /\ parse_steps' = Append(parse_steps,
         Record(step_counter, "Shift " \o current_token, stack', tokens, token_index',
                "Move to state " \o IntStr(action[2])))
    /\ step_counter' = step_counter + 1
    /\ UNCHANGED <<raw, first_returned, pc, grammar, start_symbol, terminals, non_terminals, setVars,
                   lr0Vars, built, input_string, tokens, sorted_terminals, outcome,
                   runs, history>>

\* the production line 347 reads; self.grammar is a defaultdict, so the read
\* makes the key when it is missing
production == ListAt(Get(grammar, action[2]), action[3])

rhs_len == RhsLen(production)

\* lines 345-357 when a pop finds the list empty: IndexError leaves parse_string
PopIndexError ==
    /\ pc = "parsing" /\ HasAction /\ action[1] = "reduce"
    /\ rhs_len * 2 >= Len(stack)
    /\ grammar' = Touch(grammar, action[2])
    /\ outcome' = [status |-> "fault", message |-> "IndexError: pop from empty list"]
    /\ pc' = "ready"
    /\ UNCHANGED <<raw, first_returned, start_symbol, terminals, non_terminals, setVars,
                   lr0Vars, built, input_string, tokens, stack, token_index,
                   parse_steps, step_counter, sorted_terminals, runs, history>>

top_state == Pop(stack, rhs_len * 2)[Len(stack) - rhs_len * 2]

\* lines 345-390 and 423
Reduce ==
    /\ pc = "parsing" /\ HasAction /\ action[1] = "reduce"
    /\ rhs_len * 2 < Len(stack)
    /\ action[2] \in DOMAIN parse_table[top_state].goto
    /\ step_counter < MaxSteps
    /\ LET lhs == action[2]
           goto_state == parse_table[top_state].goto[lhs]
       IN  /\ stack' = Pop(stack, rhs_len * 2) \o <<lhs, goto_state>>
           /\ parse_steps' = Append(parse_steps,
                Record(step_counter, "Reduce by " \o lhs \o " → " \o production,
                       stack', tokens, token_index,
                       "Pop " \o IntStr(rhs_len) \o " symbols, push " \o lhs
                         \o ", goto state " \o IntStr(goto_state)))
    /\ grammar' = Touch(grammar, action[2])
    /\ step_counter' = step_counter + 1
    /\ UNCHANGED <<raw, first_returned, pc, start_symbol, terminals, non_terminals, setVars,
                   lr0Vars, built, input_string, tokens, token_index,
                   sorted_terminals, outcome, runs, history>>

\* lines 345-377: the reduce finds no goto entry
ReduceNoGoto ==
    /\ pc = "parsing" /\ HasAction /\ action[1] = "reduce"
    /\ rhs_len * 2 < Len(stack)
    /\ action[2] \notin DOMAIN parse_table[top_state].goto
    /\ LET lhs == action[2]
           error_msg == NoGotoMsg(lhs, top_state)
       IN  /\ stack' = Append(Pop(stack, rhs_len * 2), lhs)
           /\ parse_steps' = Append(parse_steps,
                Record(step_counter, "ERROR", stack', tokens, token_index, error_msg))
           /\ Finish(FALSE, error_msg, parse_steps')
    /\ grammar' = Touch(grammar, action[2])
    /\ UNCHANGED <<raw, first_returned, start_symbol, terminals, non_terminals, setVars,
                   lr0Vars, built, input_string, tokens, token_index, step_counter,
                   sorted_terminals, runs>>

\* lines 392-405
Accept ==
    /\ pc = "parsing" /\ HasAction /\ action[1] = "accept"
    /\ parse_steps' = Append(parse_steps,
         Record(step_counter, "Accept", stack, tokens, token_index,
                "Input string is valid according to the grammar"))
    /\ Finish(TRUE, "Input accepted", parse_steps')
    /\ UNCHANGED <<raw, first_returned, grammar, start_symbol, terminals, non_terminals, setVars,
                   lr0Vars, built, input_string, tokens, stack, token_index,
                   step_counter, sorted_terminals, runs>>

\* The else branch of lines 407-421 needs an action tag other than shift,
\* reduce and accept; lines 184-214 write no other, so it has no step here.

Next ==
    \/ ParseGrammarOk \/ ParseGrammarFail \/ AugmentGrammar \/ ExtractSymbols
    \/ FirstNextCached \/ FirstNextCall \/ FirstCall \/ FirstRecursionError
    \/ FirstReturn \/ FollowStart \/ FollowIterate
    \/ LR0Start \/ LR0Process \/ LR0Finish \/ BuildState \/ InitReturn
    \/ StartParse \/ TokenIndexError \/ NoAction \/ Shift \/ PopIndexError
    \/ Reduce \/ ReduceNoGoto \/ Accept

Spec == Init /\ [][Next]_vars

(***************************************************************************)
(* Properties.                                                             *)
(***************************************************************************)
\* a parse_string call has returned or raised, and no other was started since
CallOver == pc = "ready" /\ runs > 0

LastStep == parse_steps[Len(parse_steps)]

StartsWith(s, prefix) == Len(s) >= Len(prefix) /\ SubSeq(s, 1, Len(prefix)) = prefix

IsReduceStep(rec) == StartsWith(rec.Action, "Reduce by ")

Accepted == outcome.status = "accept" /\ LastStep.Action = "Accept"

\* the call returned False with the message of line 313 for this token
RejectedNoAction(token) ==
    /\ outcome.status = "reject"
    /\ LastStep.Action = "ERROR"
    /\ \E n \in 0..(Len(states) - 1) : outcome.message = NoActionMsg(token, n)

\* C1: on the expression grammar, parse_string("id + id * id") ends with
\* Accept, and parse_string("id +") ends with Reject whose reason is the
\* "No action defined" message for token $.
C1_ExprEndToEnd ==
    (raw = ExprGrammar /\ CallOver) =>
        /\ input_string = "id + id * id" => Accepted
        /\ input_string = "id +" => RejectedNoAction("$")

C1_Witness ==
    /\ raw = ExprGrammar /\ CallOver /\ Len(history) = 2
    /\ history[1].input = "id + id * id" /\ history[1].ok
    /\ history[2].input = "id +" /\ ~history[2].ok

\* the records of the trace that reduce by `lhs -> production`
ReduceSteps(lhs, prod) ==
    {k \in 2..Len(parse_steps) :
        parse_steps[k].Action = "Reduce by " \o lhs \o " → " \o prod}

\* C2: on the grammar S -> A ; A -> a A | (empty), parse_string("a a a") ends
\* with Accept, every reduce by the empty production leaving all the elements
\* of the stack in place (the stack grows by the pushed pair), and
\* parse_string("a a b") ends with Reject whose reason names token b.
C2_EpsEndToEnd ==
    (raw = EpsGrammar /\ CallOver) =>
        /\ input_string = "a a a" =>
             /\ Accepted
             /\ ReduceSteps("A", "") # {}
             /\ \A k \in ReduceSteps("A", "") :
                  parse_steps[k].Stack =
                    parse_steps[k - 1].Stack \o SubSeq(parse_steps[k].Stack,
                                                       Len(parse_steps[k].Stack) - 1,
                                                       Len(parse_steps[k].Stack))
        /\ input_string = "a a b" => RejectedNoAction("b")

C2_Witness ==
    /\ raw = EpsGrammar /\ CallOver /\ Len(history) = 2
    /\ history[1].input = "a a a" /\ history[1].ok
    /\ history[2].input = "a a b" /\ ~history[2].ok

\* compute_first_sets has returned
FirstReturned == pc \notin {"start", "ValueError", "augment", "extract", "first",
                            "RecursionError"}

\* C3: once compute_first_sets has returned, no later step (compute_follow_sets
\* with its trailer updates, the automaton, the table, a parse) changes the
\* FIRST set of any non-terminal.
C3_FirstNeverChanges ==
    [][FirstReturned =>
         \A nt \in non_terminals : DGet(first', nt) = DGet(first, nt)]_vars

\* C4: construction runs to completion for every grammar text parse_grammar
\* accepts: no stage stops short of its end, in particular compute_first_sets
\* never exhausts the stack in a first() recursion that does not come back.
C4_ConstructionCompletes == pc # "RecursionError"

\* the item S' -> S . of the augmented production
AcceptItem == <<start_symbol, Join(SplitWS(Get(grammar, start_symbol)[1]), " "), <<>>>>

TableFinished == pc \in {"ready", "parsing"}

IsAccept(i, t) ==
    t \in DOMAIN parse_table[i].action /\ parse_table[i].action[t][1] = "accept"

\* C5: in the finished table ACTION[i]["$"] is Accept exactly for the states
\* i whose item set holds the completed augmented item; Accept is in no other
\* state and under no other terminal.
C5_AcceptPlacement ==
    TableFinished =>
        \A i \in 0..(Len(states) - 1) :
            /\ IsAccept(i, "$") <=> AcceptItem \in states[i + 1]
            /\ \A t \in DOMAIN parse_table[i].action : IsAccept(i, t) => t = "$"

\* two states hold the completed augmented item, one of them beside a
\* completed item that reduces under $
C5_Witness ==
    /\ TableFinished
    /\ Cardinality({i \in 1..Len(states) : AcceptItem \in states[i]}) = 2
    /\ \E i \in 1..Len(states) :
         AcceptItem \in states[i] /\ ReducedLhs(states[i], start_symbol) # {}

\* construct_lr0_items has just finished
LR0Finished == pc = "table" /\ build_idx = 0

\* the entry lines 183-189 record for a transition on X into state j
Recorded(i, X, j) ==
    IF X \in terminals
    THEN /\ X \in DOMAIN parse_table[i].action
         /\ parse_table[i].action[X] = <<"shift", j>>
    ELSE /\ X \in DOMAIN parse_table[i].goto
         /\ parse_table[i].goto[X] = j

\* C6: when construct_lr0_items finishes, every non-empty goto(s, X) of a
\* discovered state s is a discovered state, and the entry recorded for
\* (s, X) holds its index.
C6_ClosedUnderGoto ==
    LR0Finished =>
        \A i \in 0..(Len(states) - 1) : \A X \in terminals \cup non_terminals :
            goto(states[i + 1], X, grammar) # {} =>
                \E j \in 0..(Len(states) - 1) :
                    /\ states[j + 1] = goto(states[i + 1], X, grammar)
                    /\ Recorded(i, X, j)

\* a transition into a state discovered before (here: back into the state
\* itself) and one into a state discovered after
C6_Witness ==
    /\ LR0Finished
    /\ \E i \in 0..(Len(states) - 1) : \E X \in terminals :
         goto(states[i + 1], X, grammar) = states[i + 1] /\ Recorded(i, X, i)
    /\ \E i \in 0..(Len(states) - 1) : \E X \in non_terminals \ terminals :
         \E j \in (i + 1)..(Len(states) - 1) : Recorded(i, X, j)

\* the non-blank rules of a grammar text
Rules(text) == SelectSeq(Split(text, ";"), LAMBDA r : Strip(r) # "")

\* number of occurrences of `->` in a rule
Arrows(rule) == Len(Split(rule, "->")) - 1

\* non-empty text before the first `->` and after it
HasBothSides(rule) ==
    /\ Strip(SplitOnce(rule, "->")[1]) # ""
    /\ Strip(SplitOnce(rule, "->")[2]) # ""

ExactlyOneArrow(text) ==
    /\ Rules(text) # <<>>
    /\ \A i \in 1..Len(Rules(text)) :
         Arrows(Rules(text)[i]) = 1 /\ HasBothSides(Rules(text)[i])

AtLeastOneArrow(text) ==
    /\ Rules(text) # <<>>
    /\ \A i \in 1..Len(Rules(text)) :
         Arrows(Rules(text)[i]) >= 1 /\ HasBothSides(Rules(text)[i])

NothingProduced ==
    /\ grammar = <<>> /\ terminals = {} /\ non_terminals = {}
    /\ first = EmptyDict /\ follow = EmptyDict
    /\ states = <<>> /\ DOMAIN parse_table = {}

\* C7 as the claim states it: construction gets past parse_grammar only for a
\* text whose non-blank rules each hold exactly one `->`; any other text
\* fails with nothing produced.
C7_ExactlyOneArrow ==
    pc # "start" =>
        IF ExactlyOneArrow(raw) THEN pc # "ValueError"
        ELSE pc = "ValueError" /\ NothingProduced

\* C7, amended: construction gets past parse_grammar only for a text with a
\* non-blank rule whose non-blank rules each hold at least one `->`, with
\* non-empty text before the first `->` and after it; any other text fails
\* with ValueError and nothing produced, whatever its other rules are.
C7_AtLeastOneArrow ==
    pc # "start" =>
        IF AtLeastOneArrow(raw) THEN pc # "ValueError"
        ELSE pc = "ValueError" /\ NothingProduced

\* a text with a well-formed rule and a malformed one has failed
C7_Witness ==
    /\ pc = "ValueError" /\ NothingProduced
    /\ \E i \in 1..Len(Rules(raw)) :
         Arrows(Rules(raw)[i]) = 1 /\ HasBothSides(Rules(raw)[i])

\* C8: parse_string leaves the grammar, the symbol sets, FIRST, FOLLOW, the
\* states and the table as __init__ left them, and two calls with the same
\* input return the same verdict, message and trace.
C8_ParseLeavesParser ==
    /\ TableFinished => ParserFields = built
    /\ \A i \in 1..Len(history) : \A j \in 1..Len(history) :
         history[i].input = history[j].input => history[i] = history[j]

\* the same input parsed twice, with reduce steps (which read self.grammar)
C8_Witness ==
    /\ CallOver /\ Len(history) >= 2
    /\ history[1].input = history[2].input
    /\ \E k \in 1..Len(history[2].steps) :
         IsReduceStep(history[2].steps[k])

EndActions == {"Accept", "ERROR"}

\* C9: every iteration of the engine loop appends exactly one record to the
\* trace, numbered one more than the record before it; an Accept or ERROR
\* record is the last one.
C9_OneRecordPerIteration ==
    /\ [](\A k \in 1..(Len(parse_steps) - 1) : parse_steps[k].Action \notin EndActions)
    /\ [][pc = "parsing" =>
            /\ Len(parse_steps') = Len(parse_steps) + 1
            /\ SubSeq(parse_steps', 1, Len(parse_steps)) = parse_steps
            /\ parse_steps'[Len(parse_steps')].Step = LastStep.Step + 1]_vars

\* the production a reduce record names, after the arrow
RecordedProduction(rec) ==
    From(rec.Action, FindFrom(rec.Action, " → ", 1) + 3)

\* C10: every reduce record of a trace, for a production of n symbols, holds
\* a stack of the length of the stack in the record before it, - 2n + 2.
C10_ReduceHeight ==
    \A k \in 2..Len(parse_steps) :
        IsReduceStep(parse_steps[k]) =>
            Len(parse_steps[k].Stack) =
                Len(parse_steps[k - 1].Stack)
                  - 2 * Len(SplitWS(RecordedProduction(parse_steps[k]))) + 2

\* a trace with a reduce by the empty production and one by a production of
\* two symbols
C10_Witness ==
    /\ \E k \in 2..Len(parse_steps) :
         /\ IsReduceStep(parse_steps[k])
         /\ Len(SplitWS(RecordedProduction(parse_steps[k]))) = 0
    /\ \E k \in 2..Len(parse_steps) :
         /\ IsReduceStep(parse_steps[k])
         /\ Len(SplitWS(RecordedProduction(parse_steps[k]))) = 2

\* _extract_symbols has returned
SymbolsExtracted == pc \notin {"start", "ValueError", "augment", "extract"}

\* the token consists entirely of uppercase letters
AllUpperLetters(tok) ==
    Len(tok) > 0 /\ \A i \in 1..Len(tok) : Char(tok, i) \in UpperChars

\* C11: every token of a right-hand side is in the non-terminal set if and
\* only if it consists entirely of uppercase letters, and in the terminal set
\* otherwise, so that no right-hand-side token is in both sets.
C11_Classification ==
    SymbolsExtracted =>
        \A tok \in RhsSymbols(grammar) :
            /\ tok \in non_terminals <=> AllUpperLetters(tok)
            /\ tok \in terminals <=> ~AllUpperLetters(tok)

\* line 102 has run
FollowStarted == FirstReturned

\* compute_follow_sets has returned
FollowReturned == FirstReturned /\ pc # "follow"

\* C12: from line 102 on, through the fixpoint, the automaton, the table and
\* every parse, FOLLOW of the augmented start symbol contains "$".
C12_StartFollowHasEnd ==
    FollowStarted => "$" \in DGet(follow, start_symbol)

\* compute_follow_sets has just returned after more than one pass over the
\* grammar, with "$" handed on to another non-terminal
C12_Witness ==
    /\ pc = "lr0_start"
    /\ DGet(follow, start_symbol) = {"$"}
    /\ \E nt \in non_terminals \ {start_symbol} : "$" \in DGet(follow, nt)

\* the cells that are populated in `before` hold the same value in `after`
KeepsCells(before, after) ==
    \A t \in DOMAIN before : t \in DOMAIN after /\ after[t] = before[t]

\* C13: in build_slr_parsing_table, for every state and every order in which
\* its items are enumerated, the assignment made for an item (reduce or
\* accept) leaves every ACTION cell that is already populated, by a shift of
\* the automaton construction or by an item enumerated before, as it was.
C13_FirstWriterWins ==
    LR0Finished =>
        \A i \in 0..(Len(states) - 1) :
            \A items \in Perms(Completed(states[i + 1])) :
                \A k \in 1..Len(items) :
                    LET before == BuildItems(parse_table[i].action,
                                             SubSeq(items, 1, k - 1),
                                             grammar, start_symbol, follow)
                    IN  KeepsCells(before,
                                   BuildItem(before, items[k], grammar,
                                             start_symbol, follow))

\* the trailer rule for one symbol Xi of a production scanned right to left,
\* with FIRST given as the value fst: FOLLOW(Xi) takes the trailer in, then
\* the trailer becomes (FIRST(Xi) \ {ε}) ∪ trailer if ε ∈ FIRST(Xi), else
\* FIRST(Xi); for a terminal it becomes {Xi}
RuleSymbol(st, symbol, fst) ==
    IF symbol \in non_terminals
    THEN [follow |-> DSet(st.follow, symbol, DGet(st.follow, symbol) \cup st.trailer),
          trailer |-> IF Epsilon \in DGet(fst, symbol)
                      THEN (DGet(fst, symbol) \ {Epsilon}) \cup st.trailer
                      ELSE DGet(fst, symbol)]
    ELSE [follow |-> st.follow, trailer |-> {symbol}]

RECURSIVE RuleSymbols(_, _, _)
RuleSymbols(st, syms, fst) ==
    IF syms = <<>> THEN st
    ELSE RuleSymbols(RuleSymbol(st, Head(syms), fst), Tail(syms), fst)

RECURSIVE RuleProductions(_, _, _, _)
RuleProductions(fol, lhs, prods, fst) ==
    IF prods = <<>> THEN fol
    ELSE RuleProductions(
           RuleSymbols([follow |-> fol, trailer |-> DGet(fol, lhs)],
                       Reverse(SplitWS(Head(prods))), fst).follow,
           lhs, Tail(prods), fst)

RECURSIVE RuleGrammar(_, _, _)
RuleGrammar(fol, g, fst) ==
    IF g = <<>> THEN fol
    ELSE RuleGrammar(RuleProductions(fol, Head(g)[1], Head(g)[2], fst), Tail(g), fst)

\* the least sets closed under the trailer rule that contain fol
RECURSIVE LeastFollow(_, _, _)
LeastFollow(fol, g, fst) ==
    LET next == RuleGrammar(fol, g, fst)
    IN  IF \A nt \in non_terminals : DGet(next, nt) = DGet(fol, nt) THEN fol
        ELSE LeastFollow(next, g, fst)

\* C14: when compute_follow_sets has finished, FOLLOW(A) of every
\* non-terminal A is the least solution of the trailer rule, with
\* FOLLOW(start) containing "$", evaluated with the FIRST sets as
\* compute_first_sets returned them.
C14_FollowIsLeastSolution ==
    FollowReturned =>
        \A nt \in non_terminals :
            DGet(follow, nt) =
                DGet(LeastFollow((start_symbol :> {"$"}), grammar, first_returned), nt)

\* what begins the strings derivable from the symbol sequence syms, given
\* for every non-terminal the set F of what begins its strings; ε stands for
\* the empty string
RECURSIVE SeqFirst(_, _)
SeqFirst(syms, F) ==
    IF syms = <<>> THEN {Epsilon}
    ELSE LET f == IF Head(syms) \in terminals THEN {Head(syms)}
                  ELSE DGet(F, Head(syms))
         IN  IF Epsilon \in f THEN (f \ {Epsilon}) \cup SeqFirst(Tail(syms), F)
             ELSE f

DerivationStep(F) ==
    [nt \in non_terminals |->
        UNION {SeqFirst(SplitWS(Get(grammar, nt)[j]), F) : j \in 1..Len(Get(grammar, nt))}]

\* the terminals that begin some string derivable from each non-terminal,
\* with ε where the empty string is derivable: the least F closed under the
\* productions
RECURSIVE DerivedFirst(_)
DerivedFirst(F) ==
    IF DerivationStep(F) = F THEN F ELSE DerivedFirst(DerivationStep(F))

\* C15: for every grammar on which compute_first_sets returns, FIRST(X) of
\* every non-terminal X is exactly the set of terminals that begin a string
\* derivable from X, with ε if and only if X derives the empty string
\* (stated for the non-terminals that are not terminals as well).
C15_FirstIsDerived ==
    FirstReturned =>
        \A nt \in non_terminals \ terminals :
            DGet(first_returned, nt) = DerivedFirst([x \in non_terminals |-> {}])[nt]

\* construct_lr0_items has passed line 160
LR0Started == pc \in {"lr0", "table", "ready", "parsing"}

\* the indices of the states taken from the queue so far: each got its row
\* at line 166
Expanded == DOMAIN parse_table

\* C16: throughout the discovery of construct_lr0_items no two indices hold
\* the same item set, index 0 is the closure of the augmented start item,
\* state_map gives each state its position in self.states (indices are
\* consecutive in order of discovery), and the states expanded and the states
\* waiting in the queue are, in this order and without repetition, the list
\* of the states: none is enqueued or expanded twice.
C16_StateIdentity ==
    LR0Started =>
        /\ \A i \in 1..Len(states) : \A j \in 1..Len(states) :
             states[i] = states[j] => i = j
        /\ states[1] = closure({InitialItem(grammar, start_symbol)}, grammar)
        /\ DOMAIN state_map = {states[i] : i \in 1..Len(states)}
        /\ \A i \in 1..Len(states) : state_map[states[i]] = i - 1
        /\ Expanded = 0..(Len(states) - Len(state_queue) - 1)
        /\ state_queue = SubSeq(states, Len(states) - Len(state_queue) + 1, Len(states))

\* in the middle of the discovery: states wait in the queue, and an expanded
\* state has a transition into a state discovered before it was expanded
C16_Witness ==
    /\ pc = "lr0" /\ state_queue # <<>> /\ Len(states) >= 3
    /\ \E i \in Expanded : \E X \in DOMAIN parse_table[i].action :
         parse_table[i].action[X][2] <= i

Symbols == terminals \cup non_terminals

\* lines 162-189 run from the situation c to the end of the queue, the set of
\* line 168 enumerated in the given order
RECURSIVE Discover(_, _)
Discover(c, order) ==
    IF c.state_queue = <<>> THEN c
    ELSE LET current == Head(c.state_queue)
             e == ExpandSymbols([states |-> c.states, state_map |-> c.state_map,
                                 state_queue |-> Tail(c.state_queue), row |-> EmptyRow],
                                current, order, grammar)
         IN  Discover([states |-> e.states, state_map |-> e.state_map,
                       state_queue |-> e.state_queue,
                       table |-> (c.state_map[current] :> e.row) @@ c.table],
                      order)

\* construct_lr0_items run on the same grammar with another enumeration order
Rediscovered(order) ==
    LET start_state == closure({InitialItem(grammar, start_symbol)}, grammar)
    IN  Discover([states |-> <<start_state>>, state_map |-> (start_state :> 0),
                  state_queue |-> <<start_state>>,
                  table |-> [k \in {} |-> EmptyRow]], order)

ItemSets(sts) == {sts[i] : i \in 1..Len(sts)}

\* the transitions a table of shift and goto entries records, between item
\* sets instead of indices
Transitions(sts, table) ==
    UNION {{<<sts[i + 1], X, sts[table[i].action[X][2] + 1]>>
              : X \in DOMAIN table[i].action}
           \cup {<<sts[i + 1], X, sts[table[i].goto[X] + 1]>>
              : X \in DOMAIN table[i].goto}
           : i \in DOMAIN table}

\* the item sets reachable from S by transitions, whatever the order
RECURSIVE Reachable(_)
Reachable(S) ==
    LET N == S \cup ({goto(p[1], p[2], grammar) : p \in S \X Symbols} \ {{}})
    IN  IF N = S THEN S ELSE Reachable(N)

\* the queue is empty and the table holds the shift and goto entries only
Discovered == (pc = "lr0" /\ state_queue = <<>>) \/ LR0Finished

\* C17: the result of construct_lr0_items depends on the enumeration order
\* of terminals | non_terminals only in the numbering: whatever the order,
\* the item sets are those reachable from the closure of the augmented start
\* item, which has index 0, and the transitions between item sets are those
\* of goto; in particular the result and the result of a run with another
\* order have the same item sets, as many states, and the same transitions.
C17_OrderOnlyNumbers ==
    Discovered =>
        LET other == Rediscovered(SomeOrder(Symbols))
            initial == closure({InitialItem(grammar, start_symbol)}, grammar)
        IN  /\ states[1] = initial /\ other.states[1] = initial
            /\ ItemSets(states) = Reachable({initial})
            /\ Transitions(states, parse_table) =
                 {<<p[1], p[2], goto(p[1], p[2], grammar)>>
                    : p \in {q \in Reachable({initial}) \X Symbols
                               : goto(q[1], q[2], grammar) # {}}}
            /\ ItemSets(other.states) = ItemSets(states)
            /\ Len(other.states) = Len(states)
            /\ Transitions(other.states, other.table) = Transitions(states, parse_table)

\* the discovery has ended with a numbering that is not the one of the run
\* with the other order
C17_Witness ==
    /\ pc = "lr0" /\ state_queue = <<>>
    /\ sym_order # SomeOrder(Symbols)
    /\ states # Rediscovered(SomeOrder(Symbols)).states
    /\ Len(states) >= 4

\* the symbols before the dot of an item
Alpha(item) == SplitWS(item[2])

\* C18: every Reduce(A, i) entry of the finished table has 0 <= i < number
\* of productions of A, and its state holds a completed item A -> α . whose
\* symbol sequence α is that of production i of A, so that the engine pops
\* 2·|α| stack elements for the entry.
C18_ReduceNamesProduction ==
    TableFinished =>
        \A i \in 0..(Len(states) - 1) : \A t \in DOMAIN parse_table[i].action :
            LET entry == parse_table[i].action[t]
                prods == Get(grammar, entry[2])
            IN  entry[1] = "reduce" =>
                    /\ 0 <= entry[3] /\ entry[3] < Len(prods)
                    /\ \E item \in Completed(states[i + 1]) :
                         /\ item[1] = entry[2]
                         /\ Alpha(item) = SplitWS(prods[entry[3] + 1])
                         /\ 2 * RhsLen(ListAt(prods, entry[3])) = 2 * Len(Alpha(item))

\* the configuration of the engine a trace record shows: the stack and the
\* input still to read; the table and these two decide every later step
Configuration(rec) == <<rec.Stack, rec.Input>>

\* C19: every parse run reaches Accept or Reject after finitely many steps,
\* with no endless sequence of reduce steps that consume no input: the
\* engine, whose steps are decided by its configuration, is never again in a
\* configuration it has been in during the run (the Accept and ERROR records
\* end the run: they show the last configuration once more).
C19_ParseTerminates ==
    \A j \in 1..Len(parse_steps) : \A k \in 1..Len(parse_steps) :
        /\ parse_steps[j].Action \notin EndActions
        /\ parse_steps[k].Action \notin EndActions
        /\ Configuration(parse_steps[j]) = Configuration(parse_steps[k])
        => j = k

\* C20: the engine never faults: at every iteration the stack has odd
\* length, 0 at the bottom and on top a state index of the table, the token
\* cursor is within the tokens, and no run ends otherwise than by the Accept
\* verdict or a Reject verdict with its message.
C20_EngineNeverFaults ==
    /\ outcome.status # "fault"
    /\ pc = "parsing" =>
         /\ Len(stack) % 2 = 1
         /\ stack[1] = 0
         /\ current_state \in DOMAIN parse_table
         /\ token_index < Len(tokens)
         /\ (HasAction /\ action[1] = "reduce") => rhs_len * 2 < Len(stack)
====
